---- MODULE Spec2Model ----
(***************************************************************************)
(* Model of config/load_key.py: the DashScope configuration resolver.      *)
(*                                                                         *)
(* Strings are sequences of one-character strings, so that strip(),        *)
(* lower(), quoting and substring tests are computed and not assumed.      *)
(* A JSON value is a record [t, v]: t is "str", "num" or "null", v its     *)
(* characters.  A dict is a function from key names to JSON values.        *)
(***************************************************************************)
EXTENDS Integers, Sequences, FiniteSets, TLC

VARIABLES
    file,            \* Key.json on disk: [exists, ok, top, entries]
    environ,         \* os.environ restricted to the three keys: key -> string
    dashscope,       \* the optional dashscope module: [present, api_key, api_base]
    feed,            \* what has been typed on stdin so far (region prompt)
    pos,             \* how many elements of feed input() has consumed
    pc,              \* position inside load_key
    config_data,     \* local of load_key: [t, d]
    config_changed,  \* local of load_key
    key_raw,         \* what getpass() returned in this call
    env_choice,      \* local of load_key: result of _prompt_for_environment
    error,           \* exception that propagated out of load_key, or "none"
    log,             \* this call's store accesses, prompts and printed messages
    calls,           \* number of load_key() invocations so far
    planned,         \* number of load_key() invocations the caller makes
    entry,           \* snapshot of file, environ, dashscope, pos at call entry
    url_history,     \* every [choice, compat, sdk] that lines 70-75 have stored
    summary,         \* what display_config_summary printed since the last call
    prev             \* how the call before this one ended: [last, write_error, keys]

vars == <<file, environ, dashscope, feed, pos, pc, config_data, config_changed,
          key_raw, env_choice, error, log, calls, planned, entry, url_history,
          summary, prev>>

---------------------------------------------------------------------------
(* Bounds of the model *)

\* most inputs one call of the region prompt may be given
MaxFeed == 2
\* most invocations of load_key() in the re-run specification
MaxCalls == 2
\* most lines a piped stdin holds
MaxPiped == 3

---------------------------------------------------------------------------
(* Constants of load_key.py *)

API_KEY_KEY == "DASHSCOPE_API_KEY"
OPENAI_COMPAT_URL_KEY == "DASHSCOPE_API_BASE"
SDK_URL_KEY == "DASHSCOPE_BASE_HTTP_API_URL"

INTL_COMPAT_URL ==
    <<"h", "t", "t", "p", "s", ":", "/", "/", "d", "a", "s", "h", "s", "c", "o", "p", "e",
      "-", "i", "n", "t", "l", ".", "a", "l", "i", "y", "u", "n", "c", "s", ".", "c", "o", "m",
      "/", "c", "o", "m", "p", "a", "t", "i", "b", "l", "e", "-", "m", "o", "d", "e", "/", "v", "1">>
INTL_SDK_URL ==
    <<"h", "t", "t", "p", "s", ":", "/", "/", "d", "a", "s", "h", "s", "c", "o", "p", "e",
      "-", "i", "n", "t", "l", ".", "a", "l", "i", "y", "u", "n", "c", "s", ".", "c", "o", "m",
      "/", "a", "p", "i", "/", "v", "1">>
CN_COMPAT_URL ==
    <<"h", "t", "t", "p", "s", ":", "/", "/", "d", "a", "s", "h", "s", "c", "o", "p", "e",
      ".", "a", "l", "i", "y", "u", "n", "c", "s", ".", "c", "o", "m",
      "/", "c", "o", "m", "p", "a", "t", "i", "b", "l", "e", "-", "m", "o", "d", "e", "/", "v", "1">>
CN_SDK_URL ==
    <<"h", "t", "t", "p", "s", ":", "/", "/", "d", "a", "s", "h", "s", "c", "o", "p", "e",
      ".", "a", "l", "i", "y", "u", "n", "c", "s", ".", "c", "o", "m",
      "/", "a", "p", "i", "/", "v", "1">>

---------------------------------------------------------------------------
(* Python strings *)

IsSpace(c) == c \in {" ", "\t", "\n"}

RECURSIVE LStrip(_)
LStrip(s) == IF s # <<>> /\ IsSpace(Head(s)) THEN LStrip(Tail(s)) ELSE s

RECURSIVE RStrip(_)
RStrip(s) ==
    IF s # <<>> /\ IsSpace(s[Len(s)]) THEN RStrip(SubSeq(s, 1, Len(s) - 1)) ELSE s

StripLeftOnly(s) == LStrip(s)
\* str.strip(): drops the whitespace at both ends
Strip(s) == RStrip(LStrip(s))

UpperLetters == <<"A", "B", "C", "D", "E", "F", "G", "H", "I", "J", "K", "L", "M",
                  "N", "O", "P", "Q", "R", "S", "T", "U", "V", "W", "X", "Y", "Z">>
LowerLetters == <<"a", "b", "c", "d", "e", "f", "g", "h", "i", "j", "k", "l", "m",
                  "n", "o", "p", "q", "r", "s", "t", "u", "v", "w", "x", "y", "z">>

LowerChar(c) ==
    IF \E i \in 1..Len(UpperLetters) : UpperLetters[i] = c
    THEN LowerLetters[CHOOSE i \in 1..Len(UpperLetters) : UpperLetters[i] = c]
    ELSE c

\* str.lower()
Lower(s) == IF s = <<>> THEN <<>> ELSE [i \in 1..Len(s) |-> LowerChar(s[i])]

---------------------------------------------------------------------------
(* JSON values, dicts and the text of Key.json *)

Str(s) == [t |-> "str", v |-> s]
Num(s) == [t |-> "num", v |-> s]
Null == [t |-> "null", v |-> <<>>]

EmptyMap == [k \in {} |-> Null]
EmptyDict == [t |-> "object", d |-> EmptyMap]

Put(m, k, x) == [y \in DOMAIN m \cup {k} |-> IF y = k THEN x ELSE m[y]]

\* dict.get(key): None when the key is missing
Get(m, k) == IF k \in DOMAIN m THEN m[k] ELSE Null

\* Python truth value of a loaded JSON value
Truthy(x) ==
    \/ x.t = "str" /\ x.v # <<>>
    \/ x.t = "num" /\ x.v # <<"0">>

QUOTE == "\""
NullText == <<"n", "u", "l", "l">>

EncodeBare(x) == IF x.t = "null" THEN NullText ELSE x.v
\* json.dump of one value: a string is written between quotes
EncodeLit(x) ==
    CASE x.t = "str" -> <<QUOTE>> \o x.v \o <<QUOTE>>
      [] x.t = "num" -> x.v
      [] OTHER -> NullText

\* json.load of one value
DecodeLit(l) ==
    IF l # <<>> /\ Head(l) = QUOTE THEN Str(SubSeq(l, 2, Len(l) - 1))
    ELSE IF l = NullText THEN Null
    ELSE Num(l)

\* json.load(file) of well-formed text
JsonLoad(f) == [t |-> f.top, d |-> [k \in DOMAIN f.entries |-> DecodeLit(f.entries[k])]]

\* json.dump(config_data, json_file, indent=4, ensure_ascii=False)
JsonDump(cfg) ==
    [exists |-> TRUE, ok |-> TRUE, top |-> cfg.t,
     entries |-> [k \in DOMAIN cfg.d |-> EncodeLit(cfg.d[k])]]

\* a write that failed after open() truncated the file: not valid JSON
Truncated(cfg) == [JsonDump(cfg) EXCEPT !.ok = FALSE]

NoFile == [exists |-> FALSE, ok |-> FALSE, top |-> "object", entries |-> EmptyMap]

---------------------------------------------------------------------------
(* Inputs and initial states *)

KEY_EMPTY == <<>>
KEY_BLANK == <<" ", " ">>
KEY_PADDED == <<" ", "s", "k", "-", "x", " ">>
KEY_LONG == <<"s", "k", "-", "t", "e", "s", "t", "1", "2", "3", "4">>
KeyInputs == {KEY_EMPTY, KEY_BLANK, KEY_PADDED, KEY_LONG}

IN_MAYBE == <<"m", "a", "y", "b", "e">>
IN_YES_UPPER == <<"Y", "E", "S">>
IN_NO_PADDED == <<" ", "N", "o", "\t">>
IN_Y == <<"y">>
IN_N == <<"n">>
IN_EMPTY == <<>>
IN_Y_E_S == <<"y", " ", "e", "s">>
\* what the user types at the region prompt
RegionInputs == {IN_MAYBE, IN_YES_UPPER, IN_NO_PADDED, IN_Y}
\* what a piped stdin may hold
PipedInputs == RegionInputs \cup {IN_N, IN_EMPTY, IN_Y_E_S}

\* the text of a JSON string in the file
Quoted(s) == <<QUOTE>> \o s \o <<QUOTE>>

AllKeys == {API_KEY_KEY, OPENAI_COMPAT_URL_KEY, SDK_URL_KEY, "EXTRA"}
RequiredKeys == <<API_KEY_KEY, OPENAI_COMPAT_URL_KEY, SDK_URL_KEY>>

SK_X == <<"s", "k", "-", "x">>
FIVE == <<"5">>
\* texts a key of Key.json may hold; <<>> stands for "the key is not in the file"
ApiTexts == {<<>>, Quoted(<<>>), Quoted(SK_X), FIVE, NullText}
CompatTexts == {<<>>, Quoted(<<>>), Quoted(INTL_COMPAT_URL), Quoted(CN_COMPAT_URL)}
SdkTexts == {<<>>, Quoted(<<>>), Quoted(INTL_SDK_URL), Quoted(CN_SDK_URL)}
ExtraTexts == {<<>>, Quoted(<<"x">>)}

EntriesOf(a, c, s, x) ==
    LET txt == [k \in AllKeys |->
                  CASE k = API_KEY_KEY -> a
                    [] k = OPENAI_COMPAT_URL_KEY -> c
                    [] k = SDK_URL_KEY -> s
                    [] OTHER -> x]
    IN [k \in {y \in AllKeys : txt[y] # <<>>} |-> txt[k]]

ObjectFiles ==
    {[exists |-> TRUE, ok |-> TRUE, top |-> "object", entries |-> EntriesOf(a, c, s, x)] :
        a \in ApiTexts, c \in CompatTexts, s \in SdkTexts, x \in ExtraTexts}
\* a file holding a JSON array
ArrayFile == [exists |-> TRUE, ok |-> TRUE, top |-> "array", entries |-> EmptyMap]
\* files json.load rejects: the text of a complete object, cut short
CorruptFiles ==
    {[exists |-> TRUE, ok |-> FALSE, top |-> "object",
      entries |-> EntriesOf(Quoted(SK_X), Quoted(INTL_COMPAT_URL), s, x)] :
        s \in {Quoted(INTL_SDK_URL), Quoted(CN_SDK_URL)}, x \in ExtraTexts}

Files == ObjectFiles \cup CorruptFiles \cup {ArrayFile, NoFile}

OLD_KEY == <<"o", "l", "d">>
\* an environment the process inherited
OldEnviron ==
    [k \in {API_KEY_KEY, OPENAI_COMPAT_URL_KEY, SDK_URL_KEY} |->
        CASE k = API_KEY_KEY -> OLD_KEY
          [] k = OPENAI_COMPAT_URL_KEY -> CN_COMPAT_URL
          [] OTHER -> CN_SDK_URL]
Environs == {EmptyMap, OldEnviron}

Dashscopes == {[present |-> p, api_key |-> Null, api_base |-> Null] : p \in BOOLEAN}

\* nothing printed by display_config_summary
NoSummary ==
    [shown |-> FALSE, masked_key |-> <<>>, env_name |-> <<>>,
     openai_compat_url |-> <<>>, sdk_url |-> <<>>]

InitLocals ==
    /\ pos = 0
    /\ config_data = EmptyDict
    /\ config_changed = FALSE
    /\ key_raw = <<>>
    /\ env_choice = "none"
    /\ error = "none"
    /\ log = <<>>
    /\ calls = 0
    /\ entry = [file |-> file, environ |-> environ, dashscope |-> dashscope, pos |-> 0]
    /\ url_history = <<>>
    /\ summary = NoSummary
    /\ prev = [last |-> "none", write_error |-> FALSE, keys |-> {}]

\* the script run once, as under __main__, at an interactive terminal
Init ==
    /\ file \in Files
    /\ environ \in Environs
    /\ dashscope \in Dashscopes
    /\ feed = <<>>
    /\ pc = "idle"
    /\ planned = 1
    /\ InitLocals

\* files of the re-run specification: string values only
RerunFiles ==
    {[exists |-> TRUE, ok |-> TRUE, top |-> "object", entries |-> EntriesOf(a, c, s, <<>>)] :
        a \in {<<>>, Quoted(<<>>), Quoted(SK_X)},
        c \in {<<>>, Quoted(INTL_COMPAT_URL)},
        s \in {<<>>, Quoted(INTL_SDK_URL), Quoted(CN_SDK_URL)}}
    \cup {NoFile}

\* load_key() called again and again on the same Key.json
InitRerun ==
    /\ file \in RerunFiles
    /\ environ \in Environs
    /\ dashscope = [present |-> TRUE, api_key |-> Null, api_base |-> Null]
    /\ feed = <<>>
    /\ pc = "idle"
    /\ planned = MaxCalls
    /\ InitLocals

SeqsUpTo(S, n) == UNION {[1..m -> S] : m \in 0..n}

\* _prompt_for_environment() called on a piped stdin
InitPiped ==
    /\ file = NoFile
    /\ environ = EmptyMap
    /\ dashscope \in Dashscopes
    /\ feed \in SeqsUpTo(PipedInputs, MaxPiped)
    /\ pc = "prompt_env"
    /\ planned = 0
    /\ InitLocals

---------------------------------------------------------------------------
(* load_key() *)

Emit(events) == log \o events

LoadedConfigLenient(f) == IF ~f.exists THEN EmptyDict ELSE JsonLoad(f)
\* lines 45-54: config_data after Step 1; a missing or corrupt file leaves {}
LoadedConfig(f) == IF ~f.exists \/ ~f.ok THEN EmptyDict ELSE JsonLoad(f)

\* lines 45-54: the locals, then Step 1, reading Key.json
ReadConfig ==
    /\ pc \in {"idle", "returned"}
    /\ calls < planned
    /\ calls' = calls + 1
    /\ entry' = [file |-> file, environ |-> environ, dashscope |-> dashscope, pos |-> pos]
    /\ config_changed' = FALSE
    /\ key_raw' = <<>>
    /\ env_choice' = "none"
    /\ config_data' = LoadedConfig(file)
    /\ log' = IF ~file.exists THEN <<"exists">>
              ELSE IF ~file.ok THEN <<"exists", "read", "warn_corrupt">>
              ELSE <<"exists", "read">>
    /\ pc' = "check_key"
    /\ summary' = NoSummary
    /\ prev' = [last |-> IF log = <<>> THEN "none" ELSE log[Len(log)],
                write_error |-> \E i \in 1..Len(log) : log[i] = "msg_write_error",
                keys |-> DOMAIN config_data.d]
    /\ UNCHANGED <<file, environ, dashscope, feed, pos, error, planned, url_history>>

\* lines 58-63: the API key, asked for when config_data.get() is falsy
CheckApiKey ==
    /\ pc = "check_key"
    /\ IF config_data.t # "object"
       THEN \* a list has no .get
            /\ pc' = "raised"
            /\ error' = "AttributeError"
            /\ UNCHANGED <<config_data, config_changed, key_raw, log>>
       ELSE IF ~Truthy(Get(config_data.d, API_KEY_KEY))
       THEN \E typed \in KeyInputs :
            LET api_key == Strip(typed) IN
            /\ key_raw' = typed
            /\ log' = Emit(<<"msg_key_not_found", "prompt_key">>)
            /\ IF api_key # <<>>
               THEN /\ config_data' =
                        [config_data EXCEPT !.d = Put(@, API_KEY_KEY, Str(api_key))]
                    /\ config_changed' = TRUE
               ELSE UNCHANGED <<config_data, config_changed>>
            /\ pc' = "check_urls"
            /\ UNCHANGED error
       ELSE /\ pc' = "check_urls"
            /\ UNCHANGED <<config_data, config_changed, key_raw, log, error>>
    /\ UNCHANGED <<file, environ, dashscope, feed, pos, env_choice, calls, planned, entry,
                   url_history, summary, prev>>

NeedsEnvironmentBoth(d) ==
    ~Truthy(Get(d, OPENAI_COMPAT_URL_KEY)) /\ ~Truthy(Get(d, SDK_URL_KEY))
\* the condition of line 66
NeedsEnvironment(d) ==
    ~Truthy(Get(d, OPENAI_COMPAT_URL_KEY)) \/ ~Truthy(Get(d, SDK_URL_KEY))

\* lines 66-68: enter the region prompt when either URL is falsy
CheckUrls ==
    /\ pc = "check_urls"
    /\ IF NeedsEnvironment(config_data.d)
       THEN /\ log' = Emit(<<"msg_env_not_found">>)
            /\ pc' = "prompt_env"
       ELSE /\ pc' = "write"
            /\ UNCHANGED log
    /\ UNCHANGED <<file, environ, dashscope, feed, pos, config_data, config_changed,
                   key_raw, env_choice, error, calls, planned, entry, url_history, summary, prev>>

YES_WORDS == {<<"y">>, <<"y", "e", "s">>}
NO_WORDS == {<<"n">>, <<"n", "o">>}

ClassifyExact(line) ==
    LET response == Strip(line) IN
    IF response \in YES_WORDS THEN "intl"
    ELSE IF response \in NO_WORDS THEN "cn"
    ELSE "invalid"
\* lines 27-33: "intl", "cn", or "invalid" for one line of input
Classify(line) ==
    LET response == Lower(Strip(line)) IN
    IF response \in YES_WORDS THEN "intl"
    ELSE IF response \in NO_WORDS THEN "cn"
    ELSE "invalid"

\* lines 25-35: one pass of the loop of _prompt_for_environment
PromptForEnvironment ==
    /\ pc = "prompt_env"
    /\ pos < Len(feed)
    /\ pos' = pos + 1
    /\ LET answer == Classify(feed[pos + 1]) IN
       IF answer = "intl"
       THEN /\ log' = Emit(<<"prompt_region", "msg_intl">>)
            /\ env_choice' = "intl"
            /\ pc' = "set_urls"
       ELSE IF answer = "cn"
       THEN /\ log' = Emit(<<"prompt_region", "msg_cn">>)
            /\ env_choice' = "cn"
            /\ pc' = "set_urls"
       ELSE /\ log' = Emit(<<"prompt_region", "msg_invalid">>)
            /\ UNCHANGED <<env_choice, pc>>
    /\ UNCHANGED <<file, environ, dashscope, feed, config_data, config_changed,
                   key_raw, error, calls, planned, entry, url_history, summary, prev>>

\* the user answers the prompt that input() is blocked on
UserTypes ==
    /\ pc = "prompt_env"
    /\ pos = Len(feed)
    /\ Len(feed) - entry.pos < MaxFeed
    /\ \E line \in RegionInputs : feed' = Append(feed, line)
    /\ UNCHANGED <<file, environ, dashscope, pos, pc, config_data, config_changed,
                   key_raw, env_choice, error, log, calls, planned, entry,
                   url_history, summary, prev>>

UrlsSwapped(choice) ==
    IF choice = "intl"
    THEN [compat |-> CN_COMPAT_URL, sdk |-> CN_SDK_URL]
    ELSE [compat |-> INTL_COMPAT_URL, sdk |-> INTL_SDK_URL]
UrlsMixed(choice) ==
    IF choice = "intl"
    THEN [compat |-> INTL_COMPAT_URL, sdk |-> CN_SDK_URL]
    ELSE [compat |-> CN_COMPAT_URL, sdk |-> CN_SDK_URL]
\* lines 70-75: the two URLs of the chosen environment
UrlsFor(choice) ==
    IF choice = "intl"
    THEN [compat |-> INTL_COMPAT_URL, sdk |-> INTL_SDK_URL]
    ELSE [compat |-> CN_COMPAT_URL, sdk |-> CN_SDK_URL]

\* lines 70-76: both URLs are stored from the one answer
SetUrls ==
    /\ pc = "set_urls"
    /\ config_data' =
         [config_data EXCEPT !.d =
            Put(Put(@, OPENAI_COMPAT_URL_KEY, Str(UrlsFor(env_choice).compat)),
                SDK_URL_KEY, Str(UrlsFor(env_choice).sdk))]
    /\ url_history' = Append(url_history,
         [choice |-> env_choice,
          compat |-> UrlsFor(env_choice).compat, sdk |-> UrlsFor(env_choice).sdk])
    /\ config_changed' = TRUE
    /\ pc' = "write"
    /\ UNCHANGED <<file, environ, dashscope, feed, pos, key_raw, env_choice, error,
                   log, calls, planned, entry, summary, prev>>

\* what the try block of lines 80-86 can do to the file
WriteOutcomes == {"saved", "failed_before_open", "failed_after_open"}

AfterWriteRetry(outcome) == IF outcome = "saved" THEN "publish" ELSE "check_key"
AfterWriteFatal(outcome) == IF outcome = "saved" THEN "publish" ELSE "raised"
\* lines 85-86: IOError is caught and reported, and Step 4 follows either way
AfterWrite(outcome) == "publish"

WriteAlways(changed) == TRUE
\* line 79
ShouldWrite(changed) == changed

\* lines 79-86: Step 3, writing Key.json when something was newly set
WriteConfig ==
    /\ pc = "write"
    /\ IF ShouldWrite(config_changed)
       THEN \E outcome \in WriteOutcomes :
            /\ pc' = AfterWrite(outcome)
            /\ file' = IF outcome = "saved" THEN JsonDump(config_data)
                       \* os.makedirs or open raised: the file is as it was
                       ELSE IF outcome = "failed_before_open" THEN file
                       \* the write raised after open(..., 'w') truncated the file
                       ELSE Truncated(config_data)
            /\ log' = IF outcome = "saved" THEN Emit(<<"write", "msg_saved">>)
                      ELSE Emit(<<"write", "msg_write_error">>)
       ELSE /\ pc' = "publish"
            /\ UNCHANGED <<file, log>>
    /\ UNCHANGED <<environ, dashscope, feed, pos, config_data, config_changed,
                   key_raw, env_choice, error, calls, planned, entry, url_history, summary, prev>>

\* line 89: all(key in config_data for key in [...])
AllPresent(d) == \A i \in 1..Len(RequiredKeys) : RequiredKeys[i] \in DOMAIN d

\* lines 90-92: os.environ[key] = value, in order; a value that is no str raises
\* TypeError and leaves the assignments already made
RECURSIVE SetEnviron(_, _, _)
SetEnviron(env, d, i) ==
    IF i > Len(RequiredKeys) THEN [env |-> env, ok |-> TRUE]
    ELSE IF d[RequiredKeys[i]].t # "str" THEN [env |-> env, ok |-> FALSE]
    ELSE SetEnviron(Put(env, RequiredKeys[i], d[RequiredKeys[i]].v), d, i + 1)

ConfigureWithCompatUrl(ds, d) ==
    IF ds.present
    THEN [ds EXCEPT !.api_key = d[API_KEY_KEY], !.api_base = d[OPENAI_COMPAT_URL_KEY]]
    ELSE ds
\* lines 95-98: the dashscope module, when it was imported
Configure(ds, d) ==
    IF ds.present
    THEN [ds EXCEPT !.api_key = d[API_KEY_KEY], !.api_base = d[SDK_URL_KEY]]
    ELSE ds

\* lines 89-102: Step 4, the environment variables and the dashscope module
PublishConfig ==
    /\ pc = "publish"
    /\ IF AllPresent(config_data.d)
       THEN LET r == SetEnviron(environ, config_data.d, 1) IN
            /\ environ' = r.env
            /\ IF r.ok
               THEN /\ dashscope' = Configure(dashscope, config_data.d)
                    /\ log' = Emit(<<"publish", "msg_loaded">>)
                    /\ pc' = "returned"
                    /\ UNCHANGED error
               ELSE /\ pc' = "raised"
                    /\ error' = "TypeError"
                    /\ log' = Emit(<<"publish">>)
                    /\ UNCHANGED dashscope
       ELSE /\ log' = Emit(<<"warn_incomplete">>)
            /\ pc' = "returned"
            /\ UNCHANGED <<environ, dashscope, error>>
    /\ UNCHANGED <<file, feed, pos, config_data, config_changed, key_raw, env_choice,
                   calls, planned, entry, url_history, summary, prev>>

---------------------------------------------------------------------------
(* display_config_summary() *)

\* the default of the three os.environ.get calls, lines 107-109
NOT_SET == <<"N", "o", "t", " ", "S", "e", "t">>
VALID == <<"V", "a", "l", "i", "d">>
ELLIPSIS == <<".", ".", ".">>
INTL_MARK == <<"i", "n", "t", "l">>
ALIYUN_MARK == <<"a", "l", "i", "y", "u", "n", "c", "s", ".", "c", "o", "m">>
INTERNATIONAL == <<"I", "n", "t", "e", "r", "n", "a", "t", "i", "o", "n", "a", "l">>
MAINLAND_CHINA == <<"M", "a", "i", "n", "l", "a", "n", "d", " ", "C", "h", "i", "n", "a">>
UNKNOWN == <<"U", "n", "k", "n", "o", "w", "n">>
\* line 120: keys longer than this are shown by their ends
MASK_OVER == 8
\* line 121: characters shown at each end
MASK_SHOWN == 4

\* Python's "sub in s" on strings
Contains(s, sub) ==
    \E i \in 0..(Len(s) - Len(sub)) : SubSeq(s, i + 1, i + Len(sub)) = sub

EnvironGetDefault(env, k) == NOT_SET
\* lines 107-109: os.environ.get(key, 'Not Set')
EnvironGet(env, k) == IF k \in DOMAIN env THEN env[k] ELSE NOT_SET

AfterSetDefault(env, k) == IF k \in DOMAIN env THEN env ELSE Put(env, k, NOT_SET)
\* lines 107-109: os.environ after os.environ.get, which stores nothing
AfterGet(env, k) == env

EnvNameAliyunFirst(openai_compat_url) ==
    IF Contains(openai_compat_url, ALIYUN_MARK) THEN MAINLAND_CHINA
    ELSE IF Contains(openai_compat_url, INTL_MARK) THEN INTERNATIONAL
    ELSE UNKNOWN
\* lines 112-117: env_name
EnvName(openai_compat_url) ==
    IF Contains(openai_compat_url, INTL_MARK) THEN INTERNATIONAL
    ELSE IF Contains(openai_compat_url, ALIYUN_MARK) THEN MAINLAND_CHINA
    ELSE UNKNOWN

\* lines 120-123: masked_key
MaskedKey(api_key) ==
    IF Len(api_key) > MASK_OVER /\ api_key # NOT_SET
    THEN SubSeq(api_key, 1, MASK_SHOWN) \o ELLIPSIS
         \o SubSeq(api_key, Len(api_key) - MASK_SHOWN + 1, Len(api_key))
    ELSE IF api_key # NOT_SET THEN VALID ELSE NOT_SET

\* lines 105-133: the summary, printed from the environment variables
DisplayConfigSummary ==
    /\ pc \in {"idle", "returned"}
    /\ ~summary.shown
    /\ LET api_key == EnvironGet(environ, API_KEY_KEY)
           openai_compat_url == EnvironGet(environ, OPENAI_COMPAT_URL_KEY)
           sdk_url == EnvironGet(environ, SDK_URL_KEY)
       IN summary' = [shown |-> TRUE,
                      masked_key |-> MaskedKey(api_key),
                      env_name |-> EnvName(openai_compat_url),
                      openai_compat_url |-> openai_compat_url,
                      sdk_url |-> sdk_url]
    /\ environ' = AfterGet(AfterGet(AfterGet(environ, API_KEY_KEY),
                                    OPENAI_COMPAT_URL_KEY), SDK_URL_KEY)
    /\ UNCHANGED <<file, dashscope, feed, pos, pc, config_data, config_changed,
                   key_raw, env_choice, error, log, calls, planned, entry,
                   url_history, prev>>

---------------------------------------------------------------------------
(* Specifications *)

Next ==
    \/ ReadConfig
    \/ CheckApiKey
    \/ CheckUrls
    \/ UserTypes
    \/ PromptForEnvironment
    \/ SetUrls
    \/ WriteConfig
    \/ PublishConfig
    \/ DisplayConfigSummary

Spec == Init /\ [][Next]_vars

SpecRerun == InitRerun /\ [][Next]_vars

SpecPiped == InitPiped /\ [][PromptForEnvironment]_vars

\* stands for "the variable is not in the environment"
ABSENT == <<"<absent>">>
KEY_NONE == <<>>
KEY_FIVE == <<"a", "b", "c", "d", "e">>
KEY_IS_VALID == <<"V", "a", "l", "i", "d">>
KEY_IS_NOT_SET == <<"N", "o", "t", " ", "S", "e", "t">>
KEY_EIGHT == <<"a", "b", "c", "d", "e", "f", "g", "h">>
KEY_NINE == <<"a", "b", "c", "d", "e", "f", "g", "h", "i">>
KEY_TEN == <<"a", "b", "c", "d", "e", "f", "g", "h", "i", "j">>
KEY_DOTTED == <<"a", "b", "c", "d", ".", ".", ".", "g", "h", "i", "j">>
\* values of DASHSCOPE_API_KEY the process may inherit
SummaryKeys ==
    {ABSENT, KEY_NONE, KEY_FIVE, KEY_IS_VALID, KEY_IS_NOT_SET, KEY_EIGHT, KEY_NINE,
     KEY_TEN, KEY_DOTTED}
URL_LOCAL == <<"h", "t", "t", "p", ":", "/", "/", "l", "o", "c", "a", "l", "h", "o", "s", "t", ":", "8", "0", "0", "0", "/", "v", "1">>
URL_INTL_OTHER == <<"h", "t", "t", "p", "s", ":", "/", "/", "i", "n", "t", "l", ".", "e", "x", "a", "m", "p", "l", "e", ".", "c", "o", "m", "/", "v", "1">>
URL_OSS == <<"h", "t", "t", "p", "s", ":", "/", "/", "o", "s", "s", ".", "a", "l", "i", "y", "u", "n", "c", "s", ".", "c", "o", "m", "/", "v", "1">>
\* values of DASHSCOPE_API_BASE the process may inherit
SummaryCompats == {ABSENT, INTL_COMPAT_URL, CN_COMPAT_URL, URL_LOCAL, URL_INTL_OTHER, URL_OSS}
SummarySdks == {ABSENT, CN_SDK_URL}

EnvironOf(a, c, s) ==
    LET val == [k \in {API_KEY_KEY, OPENAI_COMPAT_URL_KEY, SDK_URL_KEY} |->
                  CASE k = API_KEY_KEY -> a
                    [] k = OPENAI_COMPAT_URL_KEY -> c
                    [] OTHER -> s]
    IN [k \in {y \in DOMAIN val : val[y] # ABSENT} |-> val[k]]

\* the script run once, without Key.json, in an environment of any content
InitSummary ==
    /\ file = NoFile
    /\ environ \in {EnvironOf(a, c, s) :
                        a \in SummaryKeys, c \in SummaryCompats, s \in SummarySdks}
    /\ dashscope = [present |-> FALSE, api_key |-> Null, api_base |-> Null]
    /\ feed = <<>>
    /\ pc = "idle"
    /\ planned = 1
    /\ InitLocals

SpecSummary == InitSummary /\ [][Next]_vars

\* the script run once, without Key.json, on a stdin that already holds lines
InitLive ==
    /\ file = NoFile
    /\ environ = EmptyMap
    /\ dashscope \in Dashscopes
    /\ feed \in SeqsUpTo(RegionInputs, MaxPiped)
    /\ pc = "idle"
    /\ planned = 1
    /\ InitLocals

\* the statements of load_key: the interpreter runs the next one whenever it
\* is not blocked in input()
LoadKeyStep ==
    \/ ReadConfig
    \/ CheckApiKey
    \/ CheckUrls
    \/ PromptForEnvironment
    \/ SetUrls
    \/ WriteConfig
    \/ PublishConfig

\* no fairness for UserTypes: the user may never answer
SpecLive == InitLive /\ [][Next]_vars /\ WF_vars(LoadKeyStep)

---------------------------------------------------------------------------
(* Vocabulary of the properties *)

Has(e) == \E i \in 1..Len(log) : log[i] = e
Count(e) == Cardinality({i \in 1..Len(log) : log[i] = e})
FirstIndex(e) == CHOOSE i \in 1..Len(log) : log[i] = e /\ \A j \in 1..(i - 1) : log[j] # e
Required == {API_KEY_KEY, OPENAI_COMPAT_URL_KEY, SDK_URL_KEY}

\* the API key each key input stands for, once surrounding blanks are dropped
TypedKey(raw) ==
    CASE raw = KEY_PADDED -> SK_X
      [] raw = KEY_LONG -> KEY_LONG
      [] OTHER -> <<>>

\* the table of recognized keys and literal values, built from its parts
TABLE_SCHEME == <<"h", "t", "t", "p", "s", ":", "/", "/">>
TABLE_INTL_HOST ==
    <<"d", "a", "s", "h", "s", "c", "o", "p", "e", "-", "i", "n", "t", "l", ".",
      "a", "l", "i", "y", "u", "n", "c", "s", ".", "c", "o", "m">>
TABLE_CN_HOST ==
    <<"d", "a", "s", "h", "s", "c", "o", "p", "e", ".",
      "a", "l", "i", "y", "u", "n", "c", "s", ".", "c", "o", "m">>
TABLE_COMPAT_PATH ==
    <<"/", "c", "o", "m", "p", "a", "t", "i", "b", "l", "e", "-", "m", "o", "d", "e", "/", "v", "1">>
TABLE_SDK_PATH == <<"/", "a", "p", "i", "/", "v", "1">>
TableHost(region) == IF region = "intl" THEN TABLE_INTL_HOST ELSE TABLE_CN_HOST
TableCompat(region) == TABLE_SCHEME \o TableHost(region) \o TABLE_COMPAT_PATH
TableSdk(region) == TABLE_SCHEME \o TableHost(region) \o TABLE_SDK_PATH

\* texts of Key.json
IsStringText(t) == Len(t) >= 2 /\ t[1] = QUOTE /\ t[Len(t)] = QUOTE
StringOfText(t) == SubSeq(t, 2, Len(t) - 1)
IsObjectFile(f) == f.exists /\ f.ok /\ f.top = "object"
\* the key is missing from the object, or holds "", null or 0
StoredFalsy(f, k) ==
    k \notin DOMAIN f.entries \/ f.entries[k] \in {Quoted(<<>>), NullText, <<"0">>}
\* the key holds a non-empty string
StoredString(f, k) ==
    k \in DOMAIN f.entries /\ IsStringText(f.entries[k]) /\ Len(f.entries[k]) > 2
\* a store that behaves as the empty map: missing, unparsable, or {}
ReadsAsEmpty(f) == ~f.exists \/ ~f.ok \/ (f.top = "object" /\ DOMAIN f.entries = {})

InCall == calls >= 1
AfterWriteStep == InCall /\ (pc \in {"publish", "returned"} \/ error = "TypeError")

---------------------------------------------------------------------------
(* Properties *)

\* C1: a store holding all three keys with non-empty values causes neither
\* prompt and no write; when the values are strings, exactly those three
\* values are published, unchanged, and the call returns normally.
C1_CompleteStorePublishedUnchanged ==
    (InCall /\ IsObjectFile(entry.file)
            /\ \A k \in Required : ~StoredFalsy(entry.file, k))
    => /\ ~Has("prompt_key")
       /\ ~Has("prompt_region")
       /\ ~Has("write")
       /\ file = entry.file
       /\ (\A k \in Required : StoredString(entry.file, k))
          => /\ pc # "raised"
             /\ pc = "returned"
                => /\ Has("msg_loaded")
                   /\ DOMAIN environ = Required
                   /\ \A k \in Required :
                         environ[k] = StringOfText(entry.file.entries[k])

C1_Witness ==
    /\ pc = "returned"
    /\ IsObjectFile(entry.file)
    /\ \A k \in Required : StoredString(entry.file, k)
    /\ "EXTRA" \in DOMAIN entry.file.entries
    /\ entry.environ = OldEnviron
    /\ environ[API_KEY_KEY] = SK_X
    /\ environ[OPENAI_COMPAT_URL_KEY] = TableCompat("intl")
    /\ environ[SDK_URL_KEY] = TableSdk("intl")

\* C2: no run of load_key ends in a raised error.
C2_NeverRaises == pc # "raised" /\ error = "none"

\* C3: on a missing store and on an unparsable one load_key behaves as on an
\* empty map: it asks for the key, then for the region, writes the map made
\* of the answers alone and publishes it; nothing of the old text survives.
C3_ExpectedMap ==
    LET urls == [k \in {OPENAI_COMPAT_URL_KEY, SDK_URL_KEY} |->
                    IF k = OPENAI_COMPAT_URL_KEY THEN Str(TableCompat(env_choice))
                    ELSE Str(TableSdk(env_choice))]
    IN IF TypedKey(key_raw) = <<>> THEN urls
       ELSE Put(urls, API_KEY_KEY, Str(TypedKey(key_raw)))

C3_AbsentOrCorruptActsAsEmpty ==
    (InCall /\ ReadsAsEmpty(entry.file))
    => /\ pc # "raised"
       /\ pc = "check_key" => config_data = EmptyDict
       /\ pc # "check_key" => Has("prompt_key")
       /\ pc \notin {"check_key", "check_urls"} => Has("msg_env_not_found")
       /\ pc \in {"set_urls", "write", "publish", "returned"}
          => Has("prompt_region") /\ FirstIndex("prompt_key") < FirstIndex("prompt_region")
       /\ pc \in {"write", "publish", "returned"}
          => config_data = [t |-> "object", d |-> C3_ExpectedMap]
       /\ pc \in {"publish", "returned"}
          => /\ Count("write") = 1
             /\ Has("msg_saved")
                => file = [exists |-> TRUE, ok |-> TRUE, top |-> "object",
                           entries |-> [k \in DOMAIN C3_ExpectedMap |->
                                          Quoted(C3_ExpectedMap[k].v)]]
       /\ pc = "returned"
          => IF TypedKey(key_raw) = <<>>
             THEN environ = entry.environ /\ Has("warn_incomplete")
             ELSE /\ DOMAIN environ = Required
                  /\ \A k \in Required : environ[k] = C3_ExpectedMap[k].v

C3_Witness ==
    /\ pc = "returned"
    /\ entry.file.exists /\ ~entry.file.ok
    /\ "EXTRA" \in DOMAIN entry.file.entries
    /\ Has("warn_corrupt")
    /\ Has("msg_saved")
    /\ DOMAIN file.entries = Required
    /\ file.entries[SDK_URL_KEY] = Quoted(TableSdk("cn"))
    /\ entry.file.entries[SDK_URL_KEY] = Quoted(TableSdk("intl"))
    /\ environ[API_KEY_KEY] = KEY_LONG

\* C4: when the region prompt has run, both URLs were stored in one step from
\* the one answer and are the table row of that region; before that step
\* neither differs from what was loaded; storing again for the same answer
\* gives the identical pair.
C4_UrlsFromOneAnswer ==
    /\ env_choice \in {"none", "intl", "cn"}
    /\ (InCall /\ pc \in {"write", "publish", "returned"} /\ env_choice # "none")
       => /\ OPENAI_COMPAT_URL_KEY \in DOMAIN config_data.d
          /\ SDK_URL_KEY \in DOMAIN config_data.d
          /\ config_data.d[OPENAI_COMPAT_URL_KEY] = Str(TableCompat(env_choice))
          /\ config_data.d[SDK_URL_KEY] = Str(TableSdk(env_choice))
    /\ (InCall /\ pc \in {"prompt_env", "set_urls"})
       => \A k \in {OPENAI_COMPAT_URL_KEY, SDK_URL_KEY} :
            /\ k \in DOMAIN config_data.d
               <=> (IsObjectFile(entry.file) /\ k \in DOMAIN entry.file.entries)
            /\ (k \in DOMAIN config_data.d /\ config_data.d[k].t = "str")
               => entry.file.entries[k] = Quoted(config_data.d[k].v)
    /\ \A i \in 1..Len(url_history) :
         /\ url_history[i].compat = TableCompat(url_history[i].choice)
         /\ url_history[i].sdk = TableSdk(url_history[i].choice)
         /\ \A j \in 1..Len(url_history) :
              url_history[i].choice = url_history[j].choice
              => /\ url_history[i].compat = url_history[j].compat
                 /\ url_history[i].sdk = url_history[j].sdk

C4_Witness ==
    /\ pc = "returned"
    /\ calls = 2
    /\ Len(url_history) = 2
    /\ url_history[1].choice = "intl"
    /\ url_history[2].choice = "intl"
    /\ ~entry.file.exists
    /\ key_raw = KEY_LONG
    /\ feed[Len(feed)] = IN_Y
    /\ Has("msg_saved")
    /\ DOMAIN file.entries = Required
    /\ file.entries[OPENAI_COMPAT_URL_KEY] =
          Quoted(TABLE_SCHEME \o TABLE_INTL_HOST \o TABLE_COMPAT_PATH)

\* the region a URL of the table belongs to
RegionOfUrl(u) ==
    IF u \in {TableCompat("intl"), TableSdk("intl")} THEN "intl"
    ELSE IF u \in {TableCompat("cn"), TableSdk("cn")} THEN "cn"
    ELSE "other"
\* a map from keys to strings holds no URL, or two URLs of one region
PairOfOneRegion(m) ==
    \/ OPENAI_COMPAT_URL_KEY \notin DOMAIN m /\ SDK_URL_KEY \notin DOMAIN m
    \/ /\ OPENAI_COMPAT_URL_KEY \in DOMAIN m
       /\ SDK_URL_KEY \in DOMAIN m
       /\ RegionOfUrl(m[OPENAI_COMPAT_URL_KEY]) = RegionOfUrl(m[SDK_URL_KEY])
       /\ RegionOfUrl(m[OPENAI_COMPAT_URL_KEY]) # "other"
ConfigStrings == [k \in DOMAIN config_data.d |-> config_data.d[k].v]
FileStrings ==
    [k \in DOMAIN file.entries |->
        IF IsStringText(file.entries[k]) THEN StringOfText(file.entries[k]) ELSE <<>>]

\* C5 as stated: after load_key returns, whatever Key.json held, the two URLs
\* in the merged map, in the written file and in os.environ are both absent
\* or both of one region.
C5_PairAlwaysOfOneRegion ==
    (InCall /\ pc = "returned")
    => /\ PairOfOneRegion(ConfigStrings)
       /\ Has("msg_saved") => PairOfOneRegion(FileStrings)
       /\ Has("msg_loaded") => PairOfOneRegion(environ)

\* C5 as amended: after load_key returns the merged map holds both URLs; if
\* the region prompt ran they are the table row of the answered region, in
\* the map, in the file when it was saved and in os.environ when published;
\* if it did not run they are the pair Key.json held, kept and published
\* unchanged.
C5_PairFromAnswerOrFromStore ==
    (InCall /\ pc = "returned")
    => /\ {OPENAI_COMPAT_URL_KEY, SDK_URL_KEY} \subseteq DOMAIN config_data.d
       /\ IF Has("prompt_region")
          THEN /\ env_choice \in {"intl", "cn"}
               /\ ConfigStrings[OPENAI_COMPAT_URL_KEY] = TableCompat(env_choice)
               /\ ConfigStrings[SDK_URL_KEY] = TableSdk(env_choice)
               /\ PairOfOneRegion(ConfigStrings)
               /\ Has("msg_saved")
                  => /\ FileStrings[OPENAI_COMPAT_URL_KEY] = TableCompat(env_choice)
                     /\ FileStrings[SDK_URL_KEY] = TableSdk(env_choice)
               /\ Has("msg_loaded")
                  => /\ environ[OPENAI_COMPAT_URL_KEY] = TableCompat(env_choice)
                     /\ environ[SDK_URL_KEY] = TableSdk(env_choice)
          ELSE /\ env_choice = "none"
               /\ \A k \in {OPENAI_COMPAT_URL_KEY, SDK_URL_KEY} :
                    /\ entry.file.entries[k] = Quoted(ConfigStrings[k])
                    /\ file.entries[k] = entry.file.entries[k]
                    /\ Has("msg_loaded") => environ[k] = ConfigStrings[k]

C5_Witness ==
    /\ pc = "returned"
    /\ Has("prompt_region")
    /\ env_choice = "cn"
    /\ IsObjectFile(entry.file)
    /\ OPENAI_COMPAT_URL_KEY \in DOMAIN entry.file.entries
    /\ entry.file.entries[OPENAI_COMPAT_URL_KEY] = Quoted(TableCompat("intl"))
    /\ SDK_URL_KEY \notin DOMAIN entry.file.entries
    /\ Has("msg_saved")
    /\ Has("msg_loaded")
    /\ environ[OPENAI_COMPAT_URL_KEY] = TableCompat("cn")
    /\ file.entries[SDK_URL_KEY] = Quoted(TableSdk("cn"))

KeyNewlySet == Has("prompt_key") /\ TypedKey(key_raw) # <<>>

\* C6: load_key publishes only three non-empty values; when the API key was
\* asked for and the input was empty, the call returns with os.environ as it
\* was, the incomplete warning and no success message.
C6_PublishesOnlyUsable ==
    /\ (InCall /\ Has("msg_loaded"))
       => \A k \in Required : k \in DOMAIN environ /\ environ[k] # <<>>
    /\ (InCall /\ pc = "returned" /\ Has("prompt_key") /\ TypedKey(key_raw) = <<>>)
       => /\ environ = entry.environ
          /\ Has("warn_incomplete")
          /\ ~Has("msg_loaded")

\* C7: load_key writes Key.json at most once per call, and exactly when a
\* prompt newly set a field; what is written is the whole merged map, the
\* loaded keys included, and loading the saved file gives back the map.
C7_WriteOnceWholeMapRoundTrip ==
    InCall
    => /\ Count("write") <= 1
       /\ ~AfterWriteStep => ~Has("write") /\ file = entry.file
       /\ AfterWriteStep => (Has("write") <=> (KeyNewlySet \/ Has("prompt_region")))
       /\ (AfterWriteStep /\ ~Has("msg_saved") /\ file # entry.file) => ~file.ok
       /\ (AfterWriteStep /\ Has("msg_saved"))
          => /\ file.exists /\ file.ok
             /\ JsonLoad(file) = config_data
             /\ DOMAIN file.entries =
                  (IF IsObjectFile(entry.file) THEN DOMAIN entry.file.entries ELSE {})
                  \cup (IF KeyNewlySet THEN {API_KEY_KEY} ELSE {})
                  \cup (IF Has("prompt_region")
                        THEN {OPENAI_COMPAT_URL_KEY, SDK_URL_KEY} ELSE {})
             /\ KeyNewlySet => file.entries[API_KEY_KEY] = Quoted(TypedKey(key_raw))
             /\ Has("prompt_region")
                => /\ file.entries[OPENAI_COMPAT_URL_KEY] = Quoted(TableCompat(env_choice))
                   /\ file.entries[SDK_URL_KEY] = Quoted(TableSdk(env_choice))
             /\ IsObjectFile(entry.file)
                => \A k \in DOMAIN entry.file.entries :
                     \/ k = API_KEY_KEY /\ KeyNewlySet
                     \/ k \in {OPENAI_COMPAT_URL_KEY, SDK_URL_KEY} /\ Has("prompt_region")
                     \/ file.entries[k] = entry.file.entries[k]

C7_Witness ==
    /\ pc = "returned"
    /\ Has("msg_saved")
    /\ KeyNewlySet
    /\ ~Has("prompt_region")
    /\ "EXTRA" \in DOMAIN entry.file.entries
    /\ "EXTRA" \in DOMAIN file.entries
    /\ file.entries[API_KEY_KEY] = Quoted(SK_X)
    /\ JsonLoad(file) = config_data
    /\ file # entry.file

PastKeyCheck == pc \in {"check_urls", "prompt_env", "set_urls", "write", "publish", "returned"}
                  \/ error = "TypeError"
PastUrlCheck == pc \in {"prompt_env", "set_urls", "write", "publish", "returned"}
                  \/ error = "TypeError"

\* C8: when either URL is missing or empty in the loaded store the region
\* prompt runs, also when the other URL is there, and both URLs are replaced
\* by the table row of the answer; the key prompt runs exactly when the API
\* key is missing or empty, whatever the URLs are.
C8_PartialPairRegenerated ==
    (InCall /\ IsObjectFile(entry.file))
    => /\ PastKeyCheck => (Has("prompt_key") <=> StoredFalsy(entry.file, API_KEY_KEY))
       /\ PastUrlCheck
          => (Has("msg_env_not_found")
                <=> (StoredFalsy(entry.file, OPENAI_COMPAT_URL_KEY)
                       \/ StoredFalsy(entry.file, SDK_URL_KEY)))
       /\ (AfterWriteStep /\ (StoredFalsy(entry.file, OPENAI_COMPAT_URL_KEY)
                                \/ StoredFalsy(entry.file, SDK_URL_KEY)))
          => /\ Has("prompt_region")
             /\ config_data.d[OPENAI_COMPAT_URL_KEY] = Str(TableCompat(env_choice))
             /\ config_data.d[SDK_URL_KEY] = Str(TableSdk(env_choice))
       /\ (AfterWriteStep /\ DOMAIN entry.file.entries = {API_KEY_KEY}
              /\ StoredString(entry.file, API_KEY_KEY))
          => Has("prompt_region") /\ ~Has("prompt_key")

C8_Witness ==
    /\ pc = "returned"
    /\ IsObjectFile(entry.file)
    /\ DOMAIN entry.file.entries = {API_KEY_KEY, OPENAI_COMPAT_URL_KEY}
    /\ entry.file.entries[API_KEY_KEY] = Quoted(SK_X)
    /\ entry.file.entries[OPENAI_COMPAT_URL_KEY] = Quoted(TableCompat("intl"))
    /\ env_choice = "cn"
    /\ config_data.d[OPENAI_COMPAT_URL_KEY] = Str(TableCompat("cn"))
    /\ ~Has("prompt_key")
    /\ Has("prompt_region")

\* C9: a failed write of Key.json is reported and the call goes on to Step 4;
\* when the merged map holds the three keys (as strings) they are published
\* into os.environ, and into dashscope when present, as after a saved write.
C9_WriteFailureNotFatal ==
    (InCall /\ Has("msg_write_error"))
    => /\ ~Has("msg_saved")
       /\ pc \in {"publish", "returned", "raised"}
       /\ pc = "raised"
          => /\ error = "TypeError"
             /\ \E k \in Required : config_data.d[k].t # "str"
       /\ (pc = "returned" /\ Required \subseteq DOMAIN config_data.d)
          => /\ Has("msg_loaded")
             /\ DOMAIN environ = Required
             /\ \A k \in Required : environ[k] = config_data.d[k].v
             /\ dashscope.present
                => /\ dashscope.api_key = config_data.d[API_KEY_KEY]
                   /\ dashscope.api_base = config_data.d[SDK_URL_KEY]

C9_Witness ==
    /\ pc = "returned"
    /\ Has("msg_write_error")
    /\ Has("msg_loaded")
    /\ entry.file.ok
    /\ ~file.ok
    /\ entry.environ = EmptyMap
    /\ environ[API_KEY_KEY] = SK_X
    /\ environ[OPENAI_COMPAT_URL_KEY] = TableCompat("intl")
    /\ dashscope.present
    /\ dashscope.api_base = Str(TableSdk("intl"))

\* what each line of the input sets is, trimmed and lowercased: y/yes, n/no, or neither
ExpectedAnswer(line) ==
    CASE line \in {IN_YES_UPPER, IN_Y} -> "intl"
      [] line \in {IN_NO_PADDED, IN_N} -> "cn"
      [] OTHER -> "invalid"

\* C10: the region prompt returns what the first recognized line of stdin
\* says, having rejected exactly the lines before it and consumed none after
\* it; for "maybe", "YES" it returns international after one rejection.
C10_PromptIsFunctionOfInputs ==
    LET rec == {i \in 1..Len(feed) : ExpectedAnswer(feed[i]) # "invalid"} IN
    /\ pc = "set_urls"
       => /\ rec # {}
          /\ LET first == CHOOSE i \in rec : \A j \in rec : i <= j IN
             /\ env_choice = ExpectedAnswer(feed[first])
             /\ pos = first
             /\ Count("msg_invalid") = first - 1
             /\ Count("prompt_region") = first
    /\ pc = "prompt_env"
       => /\ \A i \in 1..pos : ExpectedAnswer(feed[i]) = "invalid"
          /\ Count("msg_invalid") = pos
          /\ env_choice = "none"
    /\ (pc = "set_urls" /\ Len(feed) >= 2 /\ feed[1] = IN_MAYBE /\ feed[2] = IN_YES_UPPER)
       => /\ env_choice = "intl"
          /\ Count("msg_invalid") = 1

C10_Witness ==
    /\ pc = "set_urls"
    /\ feed = <<IN_MAYBE, IN_YES_UPPER, IN_N>>
    /\ pos = 2
    /\ env_choice = "intl"
    /\ Count("msg_invalid") = 1

---------------------------------------------------------------------------
(* The summary *)

KeyPresent == API_KEY_KEY \in DOMAIN environ
\* the summary was printed after a call of load_key that took the success branch
SummaryAfterLoaded == summary.shown /\ pc = "returned" /\ Has("msg_loaded")

\* C11: the summary shows a present key longer than 8 characters as its first
\* four characters, "...", and its last four; a present key of at most 8
\* characters as "Valid"; an absent key as "Not Set".  A present key is never
\* shown as "Not Set", an absent key never as "Valid".
C11_MaskedByLengthAndPresence ==
    summary.shown
    => IF KeyPresent
       THEN LET k == environ[API_KEY_KEY]
                n == Len(k)
            IN /\ n > 8 => summary.masked_key =
                              <<k[1], k[2], k[3], k[4], ".", ".", ".",
                                k[n - 3], k[n - 2], k[n - 1], k[n]>>
               /\ n <= 8 => summary.masked_key = <<"V", "a", "l", "i", "d">>
               /\ summary.masked_key # <<"N", "o", "t", " ", "S", "e", "t">>
       ELSE summary.masked_key = <<"N", "o", "t", " ", "S", "e", "t">>

\* C12: whenever an API key is in the environment, the text the summary shows
\* for the key differs from the key itself, whatever its length or content.
C12_FullKeyNeverShown ==
    (summary.shown /\ KeyPresent) => summary.masked_key # environ[API_KEY_KEY]

---------------------------------------------------------------------------
(* The dashscope module *)

\* C13: when load_key ends in the success branch and the dashscope module was
\* imported, the module's api_key is the published key and its api_base the
\* published DASHSCOPE_BASE_HTTP_API_URL, an SDK endpoint of the table and never
\* the compatible-mode endpoint; in every other case the module's fields are
\* what they were when load_key was called.
C13_NativeClientGetsSdkEndpoint ==
    IF pc = "returned" /\ Has("msg_loaded") /\ entry.dashscope.present
    THEN /\ dashscope.present
         /\ dashscope.api_key = Str(environ[API_KEY_KEY])
         /\ dashscope.api_base = Str(environ[SDK_URL_KEY])
         /\ dashscope.api_base.v \in {TableSdk("intl"), TableSdk("cn")}
         /\ env_choice # "none" => dashscope.api_base.v = TableSdk(env_choice)
         /\ dashscope.api_base.v # environ[OPENAI_COMPAT_URL_KEY]
         /\ dashscope.api_base.v \notin {TableCompat("intl"), TableCompat("cn")}
    ELSE dashscope = entry.dashscope

C13_Witness ==
    /\ pc = "returned"
    /\ Has("msg_loaded")
    /\ env_choice = "intl"
    /\ dashscope.present
    /\ dashscope.api_key = Str(SK_X)
    /\ dashscope.api_base = Str(TableSdk("intl"))
    /\ environ[OPENAI_COMPAT_URL_KEY] = TableCompat("intl")

\* the region names of the summary, spelled out
NAME_INTL ==
    <<"I", "n", "t", "e", "r", "n", "a", "t", "i", "o", "n", "a", "l">>
NAME_CN ==
    <<"M", "a", "i", "n", "l", "a", "n", "d", " ", "C", "h", "i", "n", "a">>
NAME_UNKNOWN == <<"U", "n", "k", "n", "o", "w", "n">>
\* the name each compatible-mode endpoint of the model is to be reported under
ExpectedName ==
    IF OPENAI_COMPAT_URL_KEY \notin DOMAIN environ THEN NAME_UNKNOWN
    ELSE LET url == environ[OPENAI_COMPAT_URL_KEY] IN
         CASE url \in {TableCompat("intl"), URL_INTL_OTHER} -> NAME_INTL
           [] url \in {TableCompat("cn"), URL_OSS} -> NAME_CN
           [] OTHER -> NAME_UNKNOWN

\* C14: the summary names the environment from DASHSCOPE_API_BASE alone:
\* "International" when it contains "intl", else "Mainland China" when it
\* contains "aliyuncs.com", else (also when it is not set) "Unknown"; after
\* load_key published endpoints it derived from a region answer, the name is
\* that of the answered region.
C14_NameFromCompatEndpoint ==
    summary.shown
    => /\ summary.env_name = ExpectedName
       /\ (SummaryAfterLoaded /\ env_choice = "intl") => summary.env_name = NAME_INTL
       /\ (SummaryAfterLoaded /\ env_choice = "cn") => summary.env_name = NAME_CN

C14_Witness ==
    /\ SummaryAfterLoaded
    /\ env_choice = "intl"
    /\ entry.environ = EnvironOf(ABSENT, URL_OSS, CN_SDK_URL)
    /\ summary.env_name = NAME_INTL

---------------------------------------------------------------------------
(* The prompt loop *)

\* a line that the region prompt is to accept is waiting on stdin
RecognizedAhead ==
    /\ pc = "prompt_env"
    /\ \E i \in (pos + 1)..Len(feed) : ExpectedAnswer(feed[i]) # "invalid"

\* C15: the region prompt has no retry bound.  While only unrecognized lines
\* have been read, load_key is still in the prompt loop, has printed the
\* invalid-input message once per line, and has neither written Key.json nor
\* touched os.environ; an unrecognized line never ends the loop; and when a
\* recognized line is waiting on stdin, the prompt and load_key terminate.
C15_PromptLoopsUntilRecognized ==
    /\ [](pc = "prompt_env"
          => /\ \A i \in (entry.pos + 1)..pos : ExpectedAnswer(feed[i]) = "invalid"
             /\ Count("msg_invalid") = pos - entry.pos
             /\ Count("prompt_region") = pos - entry.pos
             /\ ~Has("write") /\ ~Has("publish") /\ ~Has("msg_loaded")
             /\ file = entry.file
             /\ environ = entry.environ
             /\ dashscope = entry.dashscope)
    /\ [][(/\ pc = "prompt_env"
           /\ pos < Len(feed)
           /\ ExpectedAnswer(feed[pos + 1]) = "invalid"
           /\ pos' # pos)
          => pc' = "prompt_env"]_vars
    /\ (RecognizedAhead ~> (pc = "returned" /\ env_choice # "none"))

C15_Witness ==
    /\ pc = "returned"
    /\ feed = <<IN_MAYBE, IN_MAYBE, IN_NO_PADDED>>
    /\ Count("msg_invalid") = 2
    /\ env_choice = "cn"
    /\ Has("write")

---------------------------------------------------------------------------
(* Frames *)

\* the value the summary is to print for a variable of the environment
Shown(env, k) == IF k \in DOMAIN env THEN env[k] ELSE <<"N", "o", "t", " ", "S", "e", "t">>

\* C16: os.environ changes only in the publication step of load_key;
\* display_config_summary prints the two URLs as they are in os.environ and
\* leaves os.environ, Key.json and the dashscope module's fields as they were,
\* in whatever state it is called.
C16_SummaryChangesNothing ==
    [][/\ environ' # environ => pc = "publish"
       /\ (summary'.shown /\ ~summary.shown)
          => /\ environ' = environ
             /\ file' = file
             /\ dashscope' = dashscope
             /\ summary'.openai_compat_url = Shown(environ, OPENAI_COMPAT_URL_KEY)
             /\ summary'.sdk_url = Shown(environ, SDK_URL_KEY)]_vars

C16_Witness ==
    /\ summary.shown
    /\ pc = "returned"
    /\ Has("warn_incomplete")
    /\ environ = EmptyMap
    /\ summary.sdk_url = <<"N", "o", "t", " ", "S", "e", "t">>
    /\ file.exists

---------------------------------------------------------------------------
(* Two runs on one Key.json *)

\* the call before this one ended in the success branch, every write succeeding
PrevComplete == calls >= 2 /\ prev.last = "msg_loaded" /\ ~prev.write_error
\* the call before this one ended with both URLs and no API key in its map
PrevLackedKeyOnly ==
    /\ calls >= 2
    /\ prev.last = "warn_incomplete"
    /\ ~prev.write_error
    /\ API_KEY_KEY \notin prev.keys
    /\ {OPENAI_COMPAT_URL_KEY, SDK_URL_KEY} \subseteq prev.keys

\* C17: on a second run over the same Key.json, every write succeeding: after
\* a run that ended complete, the next run asks nothing, writes nothing and
\* publishes the same three values; after a run that ended with both URLs set
\* and no API key, Key.json holds both URLs and no key, and the next run asks
\* for the API key only, never for the region.
C17_SecondRunAsksOnlyForMissing ==
    /\ PrevComplete
       => /\ ~Has("prompt_key")
          /\ ~Has("prompt_region")
          /\ ~Has("write")
          /\ pc = "returned"
             => /\ Has("msg_loaded")
                /\ \A k \in Required : environ[k] = entry.environ[k]
    /\ PrevLackedKeyOnly
       => /\ entry.file.exists
          /\ DOMAIN entry.file.entries = {OPENAI_COMPAT_URL_KEY, SDK_URL_KEY}
          /\ PastKeyCheck => Has("prompt_key")
          /\ ~Has("prompt_region")

\* load_key returned through the warning of lines 101-102
EndedIncomplete == pc = "returned" /\ Has("warn_incomplete")

\* C18: when load_key ends incomplete, the three environment variables are
\* exactly what they were when it was called, none set and none cleared; what an
\* earlier complete run published, or the process inherited, is what the summary
\* then prints.
C18_IncompleteLeavesEnvironment ==
    EndedIncomplete
    => /\ environ = entry.environ
       /\ summary.shown
          => /\ summary.openai_compat_url = Shown(entry.environ, OPENAI_COMPAT_URL_KEY)
             /\ summary.sdk_url = Shown(entry.environ, SDK_URL_KEY)
             /\ API_KEY_KEY \in DOMAIN entry.environ
                => summary.masked_key =
                     IF entry.environ[API_KEY_KEY] = KEY_LONG
                     THEN <<"s", "k", "-", "t", ".", ".", ".", "1", "2", "3", "4">>
                     ELSE <<"V", "a", "l", "i", "d">>

C18_Witness ==
    /\ EndedIncomplete
    /\ calls = 2
    /\ prev.last = "msg_loaded"
    /\ entry.environ[API_KEY_KEY] = KEY_LONG
    /\ summary.shown
    /\ summary.masked_key = <<"s", "k", "-", "t", ".", ".", ".", "1", "2", "3", "4">>
    /\ summary.openai_compat_url = TableCompat("intl")
    /\ env_choice = "cn"

---------------------------------------------------------------------------
(* Order of the steps *)

\* the stage of a run that an entry of the log belongs to; 0 for a message
Stage(e) ==
    CASE e \in {"exists", "read"} -> 1
      [] e = "prompt_key" -> 2
      [] e = "prompt_region" -> 3
      [] e = "write" -> 4
      [] e = "publish" -> 5
      [] OTHER -> 0

\* C19: within one call of load_key, Key.json is read once, before any
\* prompt; the API-key prompt comes before the region prompt; every prompt
\* comes before the write of Key.json; the write comes before the publication
\* into os.environ; and after the publication there is no prompt and no access
\* to Key.json.
C19_StepsInFixedOrder ==
    /\ \A i, j \in 1..Len(log) :
         (i < j /\ Stage(log[i]) > 0 /\ Stage(log[j]) > 0)
         => /\ Stage(log[i]) <= Stage(log[j])
            /\ Stage(log[i]) = Stage(log[j])
               => \/ log[i] = "prompt_region" /\ log[j] = "prompt_region"
                  \/ log[i] = "exists" /\ log[j] = "read"
    /\ Count("read") <= 1
    /\ InCall => log[1] = "exists"
    /\ Has("read") => log[2] = "read"
    /\ (InCall /\ entry.file.exists) => Has("read")
    /\ (file # entry.file) => Has("write")
    /\ (environ # entry.environ) => Has("publish")
    /\ Has("publish") => pc \in {"returned", "raised"}

C19_Witness ==
    /\ pc = "returned"
    /\ Has("read") /\ Has("prompt_key") /\ Has("prompt_region")
    /\ Has("write") /\ Has("publish")
    /\ Count("prompt_region") = 2
    /\ FirstIndex("read") < FirstIndex("prompt_key")
    /\ FirstIndex("prompt_key") < FirstIndex("prompt_region")
    /\ FirstIndex("prompt_region") < FirstIndex("write")
    /\ FirstIndex("write") < FirstIndex("publish")

====
